---- MODULE Spec2Model ----
(***************************************************************************)
(* Model of pdf-property-editor.py: a one-shot command line tool that      *)
(* reads the info dictionary of a PDF file and merges or overwrites its    *)
(* Keywords entry.                                                         *)
(*                                                                         *)
(* Text.  A Python str is a sequence of symbols.  A symbol is either a     *)
(* punctuation character ("#", ";", " ", "(", ")", "\", "/", "=", ".") or  *)
(* a run of letters that the program never splits ("chords", "guitar").    *)
(* Note names and file names are spelled letter by letter because the      *)
(* program looks inside them (enharmonic table, lower(), endswith()).      *)
(*                                                                         *)
(* pdfrw.  The PDF library is outside the repository.  The model keeps     *)
(* the three facts about it that the program's statements depend on:       *)
(*  - PdfDict attribute access returns None for a missing key, and a       *)
(*    plain dict assigned to reader.Info stays a plain dict;               *)
(*  - a string read from a file is a PdfString, a str subclass holding     *)
(*    the literal as written in the file, delimiters and escapes included; *)
(*  - PdfWriter writes a PdfString as it is and a plain str as the         *)
(*    literal that encodes it.                                             *)
(* The file system maps each existing file name to its document; a         *)
(* document is its info dictionary, the text of every entry decoded.       *)
(***************************************************************************)
EXTENDS Integers, Sequences, FiniteSets, TLC

VARIABLES
    fs,          \* file name -> document, for the files that exist
    fs0,         \* history: fs before the first invocation
    fsBefore,    \* history: fs when the current invocation started
    runs,        \* number of invocations started so far
    pc,          \* position of the current invocation
    argv,        \* the command line of the current invocation
    args,        \* the Namespace parseargs returned
    props,       \* gather_properties' result
    new_props,   \* the last read_properties result
    printed,     \* what print_props printed (Absent before it ran)
    exitStatus,  \* Running, or the process' exit status
    exitMsg,     \* why the process ended
    opens,       \* how many times this invocation opened the file
    saved,       \* this invocation ran PdfWriter(...).write()
    reached,     \* the functions this invocation has run so far
    computed     \* the Keywords value write_properties assigned

vars == <<fs, fs0, fsBefore, runs, pc, argv, args, props, new_props, printed,
          exitStatus, exitMsg, opens, saved, reached, computed>>

----------------------------------------------------------------------------
(* Bounds *)

MaxRuns == 2     \* invocations in one behaviour
MaxInstr == 2    \* instruments after one --instrument

----------------------------------------------------------------------------
(* Python values *)

\* An optional value: None, or a value v.  Python's truth test of it.
None == [set |-> FALSE, val |-> <<>>]
Some(v) == [set |-> TRUE, val |-> v]
Truthy(o) == o.set /\ o.val # <<>>

Running == -1

RECURSIVE Join(_, _)
\* sep.join(list)
Join(list, sep) ==
    IF list = <<>> THEN <<>>
    ELSE IF Len(list) = 1 THEN list[1]
    ELSE list[1] \o sep \o Join(Tail(list), sep)

\* str.lower(), on the letters file names are made of
LowerChar(c) ==
    CASE c = "A" -> "a" [] c = "B" -> "b" [] c = "P" -> "p"
      [] c = "D" -> "d" [] c = "F" -> "f" [] c = "T" -> "t"
      [] c = "X" -> "x" [] OTHER -> c

Lower(s) == [i \in 1..Len(s) |-> LowerChar(s[i])]

EndsWith(s, suffix) ==
    /\ Len(s) >= Len(suffix)
    /\ SubSeq(s, Len(s) - Len(suffix) + 1, Len(s)) = suffix

----------------------------------------------------------------------------
(* Module constants *)

PROPERTY_KEYWORDS == "/Keywords"
STRATEGY_MERGE == "merge"
STRATEGY_OVERWRITE == "overwrite"
STRATEGIES == {STRATEGY_OVERWRITE, STRATEGY_MERGE}

USER_KEYS ==
    << <<"A", "b">>, <<"A">>, <<"B", "b">>, <<"B">>, <<"C">>, <<"C", "#">>,
       <<"D", "b">>, <<"D">>, <<"E", "b">>, <<"E">>, <<"F">>, <<"F", "#">>,
       <<"G">>, <<"G", "#">> >>

UserKeySet == {USER_KEYS[i] : i \in 1..Len(USER_KEYS)}

EnharmonicSpellings ==
    { <<"A", "b">>, <<"G", "#">>, <<"A", "#">>, <<"B", "b">>,
      <<"C", "#">>, <<"D", "b">>, <<"D", "#">>, <<"E", "b">> }

ENHARMONICS ==
    [k \in EnharmonicSpellings |->
        CASE k \in {<<"A", "b">>, <<"G", "#">>} -> <<"G", "#", "/", "A", "b">>
          [] k \in {<<"A", "#">>, <<"B", "b">>} -> <<"A", "#", "/", "B", "b">>
          [] k \in {<<"C", "#">>, <<"D", "b">>} -> <<"C", "#", "/", "D", "b">>
          [] k \in {<<"D", "#">>, <<"E", "b">>} -> <<"D", "#", "/", "E", "b">>]

\* ENHARMONICS.get(key, key)
Normalize(key) == IF key \in DOMAIN ENHARMONICS THEN ENHARMONICS[key] ELSE key

----------------------------------------------------------------------------
(* Command lines *)

Instruments == { <<"bass">>, <<"guitar">>, <<"ukulele">> }

RECURSIVE SeqsUpTo(_, _)
\* the non-empty sequences over S of length at most n
SeqsUpTo(S, n) ==
    IF n = 0 THEN {}
    ELSE LET shorter == SeqsUpTo(S, n - 1)
         IN  {<<x>> : x \in S} \cup shorter
               \cup {Append(s, x) : s \in shorter, x \in S}

YoutubeUrl == <<"https", ":", "/", "/", "youtu", ".", "be", "/", "x">>
SpotifyUrl == <<"https", ":", "/", "/", "open", ".", "spotify", ".", "com", "/", "y">>

FileA == <<"a", ".", "p", "d", "f">>
FileUpper == <<"A", ".", "P", "D", "F">>
FileTxt == <<"a", ".", "t", "x", "t">>
FileMissing == <<"b", ".", "p", "d", "f">>
FileMissingTxt == <<"b", ".", "t", "x", "t">>

FileNames == {FileA, FileUpper, FileTxt, FileMissing, FileMissingTxt}
ExistingFiles == {FileA, FileUpper, FileTxt}

\* what the write subparser leaves in the Namespace for the given options
WriteCmd(file, key, chords, jon, instrument, tab, youtube, spotify, merge, overwrite) ==
    [action |-> "write", file |-> file, key |-> key, chords |-> chords,
     jon |-> jon, instrument |-> instrument, tab |-> tab, youtube |-> youtube,
     spotify |-> spotify, merge |-> merge, overwrite |-> overwrite]

\* the read subparser defines the file argument only
ReadCmd(file) == [action |-> "read", file |-> file]

NoArgs == [action |-> "<none>"]

----------------------------------------------------------------------------
(* parseargs *)

HasAttr(ns, name) == name \in DOMAIN ns

Exit(status, msg, ns) == [status |-> status, msg |-> msg, args |-> ns]

\* Variant of parse_args whose --merge/--overwrite group is neither required
\* nor exclusive.
parse_argsNoGroup(av) == Exit(Running, "", av)

\* p.parse_args(): the required, mutually exclusive --merge/--overwrite group
\* of the write subparser.  Every other option is optional and the values of
\* argv are already among the declared choices.
parse_args(av) ==
    IF av.action = "write" /\ av.merge /\ av.overwrite
    THEN Exit(2, "error: argument not allowed with argument", NoArgs)
    ELSE IF av.action = "write" /\ ~av.merge /\ ~av.overwrite
    THEN Exit(2, "error: one of the arguments --merge --overwrite is required", NoArgs)
    ELSE Exit(Running, "", av)

\* the Namespace with args.__dict__["strategy"] set and args.key normalised
PostProcess(ns) ==
    LET withStrategy ==
            IF ns.merge \/ ns.overwrite THEN DOMAIN ns \cup {"strategy"}
            ELSE DOMAIN ns
    IN  [a \in withStrategy |->
            IF a = "strategy"
            THEN (IF ns.merge THEN STRATEGY_MERGE ELSE STRATEGY_OVERWRITE)
            ELSE IF a = "key" /\ Truthy(ns.key) THEN Some(Normalize(ns.key.val))
            ELSE ns[a]]

\* Variant of parseargs that tests the existence of the path before its suffix.
parseargsExistsFirst(av, existing) ==
    LET parsed == parse_args(av)
        ns == parsed.args
    IN  IF parsed.status # Running THEN parsed
        ELSE IF ns.file \notin existing
        THEN Exit(1, "Not a file", NoArgs)
        ELSE IF ~EndsWith(Lower(ns.file), <<".", "p", "d", "f">>)
        THEN Exit(1, "only works with PDF files", NoArgs)
        ELSE IF ~HasAttr(ns, "merge")
        THEN Exit(1, "AttributeError: 'Namespace' object has no attribute 'merge'", NoArgs)
        ELSE Exit(Running, "", PostProcess(ns))

\* parseargs(): how it ends (status Running: it returned args)
parseargs(av, existing) ==
    LET parsed == parse_args(av)
        ns == parsed.args
    IN  IF parsed.status # Running THEN parsed
        ELSE IF ~EndsWith(Lower(ns.file), <<".", "p", "d", "f">>)
        THEN Exit(1, "only works with PDF files", NoArgs)
        ELSE IF ns.file \notin existing
        THEN Exit(1, "Not a file", NoArgs)
        ELSE IF ~HasAttr(ns, "merge")
        THEN Exit(1, "AttributeError: 'Namespace' object has no attribute 'merge'", NoArgs)
        ELSE Exit(Running, "", PostProcess(ns))

----------------------------------------------------------------------------
(* gather_properties *)

HashTag(word) == <<"#">> \o word

Opt(cond, token) == IF cond THEN <<token>> ELSE <<>>

\* Variant of Keywords that appends #tab before the instruments.
KeywordsTabFirst(a) ==
    Opt(a.chords, HashTag(<<"chords">>))
      \o Opt(a.jon, HashTag(<<"jon">>))
      \o Opt(Truthy(a.key), HashTag(<<"key", "=">> \o a.key.val))
      \o Opt(Truthy(a.youtube), a.youtube.val)
      \o Opt(Truthy(a.spotify), a.spotify.val)
      \o Opt(a.tab, HashTag(<<"tab">>))
      \o (IF Truthy(a.instrument)
          THEN [i \in 1..Len(a.instrument.val) |-> HashTag(a.instrument.val[i])]
          ELSE <<>>)

\* the keywords list, in the order of the appends
Keywords(a) ==
    Opt(a.chords, HashTag(<<"chords">>))
      \o Opt(a.jon, HashTag(<<"jon">>))
      \o Opt(Truthy(a.key), HashTag(<<"key", "=">> \o a.key.val))
      \o Opt(Truthy(a.youtube), a.youtube.val)
      \o Opt(Truthy(a.spotify), a.spotify.val)
      \o (IF Truthy(a.instrument)
          THEN [i \in 1..Len(a.instrument.val) |-> HashTag(a.instrument.val[i])]
          ELSE <<>>)
      \o Opt(a.tab, HashTag(<<"tab">>))

\* a dict is a function from its keys
EmptyDict == [k \in {} |-> <<>>]

\* Variant of gather_properties that sets Keywords even when the list is empty.
gather_propertiesAlways(a) ==
    [k \in {PROPERTY_KEYWORDS} |-> Join(Keywords(a), <<";", " ">>)]

gather_properties(a) ==
    IF Keywords(a) # <<>>
    THEN [k \in {PROPERTY_KEYWORDS} |-> Join(Keywords(a), <<";", " ">>)]
    ELSE EmptyDict

----------------------------------------------------------------------------
(* Documents and the PDF library *)

NoInfoDoc == [hasInfo |-> FALSE, info |-> EmptyDict]
EmptyInfoDoc == [hasInfo |-> TRUE, info |-> EmptyDict]
TitleDoc == [hasInfo |-> TRUE, info |-> [k \in {"/Title"} |-> <<"Song">>]]
TaggedDoc ==
    [hasInfo |-> TRUE,
     info |-> [k \in {"/Title", PROPERTY_KEYWORDS} |->
                  IF k = "/Title" THEN <<"Song">> ELSE <<"old">>]]

InitDocs == {NoInfoDoc, EmptyInfoDoc, TitleDoc, TaggedDoc}

\* bool(reader.Info): None and the empty dictionary are both false
InfoTruthy(doc) == doc.hasInfo /\ DOMAIN doc.info # {}

RECURSIVE Escape(_)
\* the body of a PDF literal string: "\", "(" and ")" get a backslash
Escape(text) ==
    IF text = <<>> THEN <<>>
    ELSE (IF Head(text) \in {"\\", "(", ")"}
          THEN <<"\\", Head(text)>> ELSE <<Head(text)>>) \o Escape(Tail(text))

\* str(v) of the PdfString v read from the file for an entry whose text is
\* `text`: the literal, between parentheses
PdfEncode(text) == <<"(">> \o Escape(text) \o <<")">>

\* read_properties(): the dict it returns
read_properties(doc) ==
    IF InfoTruthy(doc)
    THEN [n \in DOMAIN doc.info |-> PdfEncode(doc.info[n])]
    ELSE EmptyDict

\* Variant of SetKeywords that starts from a fresh dictionary.
SetKeywordsOnly(info, value) == [k \in {PROPERTY_KEYWORDS} |-> value]

\* writer.Info with Keywords assigned the plain str value
SetKeywords(info, value) ==
    [k \in DOMAIN info \cup {PROPERTY_KEYWORDS} |->
        IF k = PROPERTY_KEYWORDS THEN value ELSE info[k]]

Outcome(error, doc, isSaved, value) ==
    [error |-> error, doc |-> doc, saved |-> isSaved, computed |-> value]

\* write_properties() up to and including the save: the exception it raises
\* (or ""), the document left in the file, whether PdfWriter wrote it, and
\* the value assigned to Keywords
write_properties(doc, properties, strategy) ==
    IF strategy \notin STRATEGIES
    THEN Outcome("ValueError: invalid stategy", doc, FALSE, None)
    ELSE IF PROPERTY_KEYWORDS \notin DOMAIN properties
    THEN Outcome("", doc, FALSE, None)
    ELSE IF ~InfoTruthy(doc)
    THEN Outcome("AttributeError: 'dict' object has no attribute 'Keywords'",
                 doc, FALSE, None)
    ELSE LET kw == properties[PROPERTY_KEYWORDS] IN
         IF strategy = STRATEGY_MERGE
         THEN IF PROPERTY_KEYWORDS \notin DOMAIN doc.info
              THEN Outcome("TypeError: unsupported operand type(s) for +=: 'NoneType' and 'str'",
                           doc, FALSE, None)
              ELSE LET value == PdfEncode(doc.info[PROPERTY_KEYWORDS])
                                  \o <<";", " ">> \o kw
                   IN  Outcome("", [doc EXCEPT !.info = SetKeywords(doc.info, value)],
                               TRUE, Some(value))
         ELSE Outcome("", [doc EXCEPT !.info = SetKeywords(doc.info, kw)],
                      TRUE, Some(kw))

----------------------------------------------------------------------------
(* The command lines the invocations are drawn from *)

\* every combination of the write options, on an existing PDF file
AllWriteCmds ==
    { WriteCmd(FileA, key, chords, jon, instrument, tab, youtube, spotify,
               merge, overwrite) :
        key \in {None} \cup {Some(k) : k \in UserKeySet},
        chords \in BOOLEAN, jon \in BOOLEAN,
        instrument \in {None} \cup {Some(l) : l \in SeqsUpTo(Instruments, MaxInstr)},
        tab \in BOOLEAN,
        youtube \in {None, Some(<<>>), Some(YoutubeUrl)},
        spotify \in {None, Some(<<>>), Some(SpotifyUrl)},
        merge \in BOOLEAN, overwrite \in BOOLEAN }

\* the command lines of a sequence of invocations: every file name, both
\* actions, every use of --merge/--overwrite, and a few keyword options
RunCmds ==
    { ReadCmd(f) : f \in FileNames }
      \cup { WriteCmd(f, key, chords, FALSE, None, FALSE, youtube, None,
                      merge, overwrite) :
               f \in FileNames,
               key \in {None, Some(<<"A", "b">>)},
               chords \in BOOLEAN,
               youtube \in {None, Some(<<>>)},
               merge \in BOOLEAN, overwrite \in BOOLEAN }

----------------------------------------------------------------------------
(* The program: one action per function called from __main__ *)

NotPrinted == [done |-> FALSE, props |-> EmptyDict]

\* the process starts with the command line av
Invoke(av) ==
    /\ pc \in {"idle", "exited"}
    /\ runs < MaxRuns
    /\ runs' = runs + 1
    /\ argv' = av
    /\ pc' = "parseargs"
    /\ fsBefore' = fs
    /\ args' = NoArgs
    /\ props' = EmptyDict
    /\ new_props' = EmptyDict
    /\ printed' = NotPrinted
    /\ exitStatus' = Running
    /\ exitMsg' = ""
    /\ opens' = 0
    /\ saved' = FALSE
    /\ reached' = {}
    /\ computed' = None
    /\ UNCHANGED <<fs, fs0>>

\* args = parseargs(), then the dispatch on args.action
ParseArgs ==
    /\ pc = "parseargs"
    /\ LET r == parseargs(argv, DOMAIN fs) IN
        /\ args' = r.args
        /\ exitStatus' = r.status
        /\ exitMsg' = r.msg
        /\ pc' = IF r.status # Running THEN "exited"
                 ELSE IF r.args.action = "read" THEN "read_properties"
                 ELSE "gather_properties"
    /\ reached' = reached \cup {"parseargs"}
    /\ UNCHANGED <<fs, fs0, fsBefore, runs, argv, props, new_props, printed,
                   opens, saved, computed>>

\* props = gather_properties(args)
GatherProperties ==
    /\ pc = "gather_properties"
    /\ props' = gather_properties(args)
    /\ pc' = "write_properties"
    /\ reached' = reached \cup {"gather_properties"}
    /\ UNCHANGED <<fs, fs0, fsBefore, runs, argv, args, new_props, printed,
                   exitStatus, exitMsg, opens, saved, computed>>

\* write_properties(args.file, props, args.strategy), with the
\* read_properties(file) it ends with
WriteProperties ==
    /\ pc = "write_properties"
    /\ IF ~HasAttr(args, "strategy")
       THEN /\ exitStatus' = 1
            /\ exitMsg' = "AttributeError: 'Namespace' object has no attribute 'strategy'"
            /\ pc' = "exited"
            /\ UNCHANGED <<fs, opens, saved, reached, computed, new_props>>
       ELSE LET r == write_properties(fs[args.file], props, args.strategy) IN
            /\ reached' = reached \cup {"write_properties"}
            /\ fs' = [fs EXCEPT ![args.file] = r.doc]
            /\ saved' = r.saved
            /\ computed' = r.computed
            /\ IF r.error # ""
               THEN /\ exitStatus' = 1
                    /\ exitMsg' = r.error
                    /\ pc' = "exited"
                    /\ opens' = IF args.strategy \in STRATEGIES THEN opens + 1 ELSE opens
                    /\ UNCHANGED new_props
               ELSE /\ opens' = opens + 2
                    /\ new_props' = read_properties(r.doc)
                    /\ pc' = "read_properties"
                    /\ UNCHANGED <<exitStatus, exitMsg>>
    /\ UNCHANGED <<fs0, fsBefore, runs, argv, args, props, printed>>

\* props = read_properties(args.file)
ReadProperties ==
    /\ pc = "read_properties"
    /\ new_props' = read_properties(fs[args.file])
    /\ opens' = opens + 1
    /\ pc' = "print_props"
    /\ reached' = reached \cup {"read_properties"}
    /\ UNCHANGED <<fs, fs0, fsBefore, runs, argv, args, props, printed,
                   exitStatus, exitMsg, saved, computed>>

\* print_props(args.file, props), then sys.exit(0) or the end of the script
PrintProps ==
    /\ pc = "print_props"
    /\ printed' = [done |-> TRUE, props |-> new_props]
    /\ exitStatus' = 0
    /\ pc' = "exited"
    /\ reached' = reached \cup {"print_props"}
    /\ UNCHANGED <<fs, fs0, fsBefore, runs, argv, args, props, new_props,
                   exitMsg, opens, saved, computed>>

Run == \E av \in RunCmds : Invoke(av)

Init ==
    /\ fs \in {[f \in ExistingFiles |-> d] : d \in InitDocs}
    /\ fs0 = fs
    /\ fsBefore = fs
    /\ runs = 0
    /\ pc = "idle"
    /\ argv = NoArgs
    /\ args = NoArgs
    /\ props = EmptyDict
    /\ new_props = EmptyDict
    /\ printed = NotPrinted
    /\ exitStatus = Running
    /\ exitMsg = ""
    /\ opens = 0
    /\ saved = FALSE
    /\ reached = {}
    /\ computed = None

Next ==
    \/ Run
    \/ ParseArgs
    \/ GatherProperties
    \/ WriteProperties
    \/ ReadProperties
    \/ PrintProps

Spec == Init /\ [][Next]_vars

\* One invocation of `write` on an existing PDF file, with every combination
\* of options, up to the assembled keywords
InitArgs ==
    /\ fs = [f \in ExistingFiles |-> TaggedDoc]
    /\ fs0 = fs
    /\ fsBefore = fs
    /\ runs = 1
    /\ pc = "parseargs"
    /\ argv \in AllWriteCmds
    /\ args = NoArgs
    /\ props = EmptyDict
    /\ new_props = EmptyDict
    /\ printed = NotPrinted
    /\ exitStatus = Running
    /\ exitMsg = ""
    /\ opens = 0
    /\ saved = FALSE
    /\ reached = {}
    /\ computed = None

NextArgs ==
    \/ ParseArgs
    \/ GatherProperties

SpecArgs == InitArgs /\ [][NextArgs]_vars

TypeOK ==
    /\ pc \in {"idle", "parseargs", "gather_properties", "write_properties",
               "read_properties", "print_props", "exited"}
    /\ runs \in 0..MaxRuns
    /\ exitStatus \in {Running, 0, 1, 2}
    /\ DOMAIN fs = ExistingFiles

----------------------------------------------------------------------------
(* Properties *)

PdfSuffix(file) == EndsWith(Lower(file), <<".", "p", "d", "f">>)

Invoked == pc # "idle"

\* the invocation is a write that passed parseargs
Parsed == HasAttr(args, "strategy")

\* the assembled keyword string of this invocation is `new`
Assembled(new) ==
    /\ "gather_properties" \in reached
    /\ PROPERTY_KEYWORDS \in DOMAIN props
    /\ props[PROPERTY_KEYWORDS] = new

HasKeywords(doc) == doc.hasInfo /\ PROPERTY_KEYWORDS \in DOMAIN doc.info

\* C1: a `read` of an existing file whose name ends in .pdf ends with exit
\* status 0 after the reader and the printer ran.
C1_ReadSucceeds ==
    (pc = "exited" /\ argv.action = "read" /\ PdfSuffix(argv.file)
        /\ argv.file \in DOMAIN fs)
    => (exitStatus = 0 /\ {"read_properties", "print_props"} \subseteq reached)

\* C2: when a merge write with a non-empty assembled text `new` has ended,
\* the file was saved and the document's Keywords is the previous value
\* followed by "; " and `new` (the previous value being empty when the
\* document had no Keywords entry or no info dictionary).
C2_MergeAppends ==
    (pc = "exited" /\ Parsed /\ args.strategy = STRATEGY_MERGE
        /\ "gather_properties" \in reached
        /\ PROPERTY_KEYWORDS \in DOMAIN props)
    => LET before == fsBefore[args.file]
           old == IF HasKeywords(before) THEN before.info[PROPERTY_KEYWORDS]
                  ELSE <<>>
       IN  /\ saved
           /\ exitStatus = 0
           /\ HasKeywords(fs[args.file])
           /\ fs[args.file].info[PROPERTY_KEYWORDS]
                = old \o <<";", " ">> \o props[PROPERTY_KEYWORDS]

\* C3: when an overwrite write with a non-empty assembled string s has ended,
\* the document's Keywords is exactly s, whatever the document held before.
C3_OverwriteReplaces ==
    (pc = "exited" /\ Parsed /\ args.strategy = STRATEGY_OVERWRITE
        /\ "gather_properties" \in reached
        /\ PROPERTY_KEYWORDS \in DOMAIN props)
    => /\ HasKeywords(fs[args.file])
       /\ fs[args.file].info[PROPERTY_KEYWORDS] = props[PROPERTY_KEYWORDS]

\* the parser accepts the options of the command line
GroupOk(av) == av.action = "read" \/ (av.merge # av.overwrite)

\* C4: an invocation whose file argument does not end in .pdf, or does not
\* exist, never opens a file, never runs the assembler and changes no file;
\* it ends with a message and a non-zero status, and a name without the .pdf
\* suffix is reported as such whether or not the path exists.
C4_BadFileTerminates ==
    (Invoked /\ (~PdfSuffix(argv.file) \/ argv.file \notin DOMAIN fs))
    => /\ pc \in {"parseargs", "exited"}
       /\ opens = 0
       /\ reached \subseteq {"parseargs"}
       /\ fs = fsBefore
       /\ pc = "exited" =>
            /\ exitStatus \notin {Running, 0}
            /\ exitMsg # ""
            /\ (GroupOk(argv) /\ ~PdfSuffix(argv.file))
                  => exitMsg = "only works with PDF files"
            /\ (GroupOk(argv) /\ PdfSuffix(argv.file)) => exitMsg = "Not a file"

\* a name with no .pdf suffix and no file behind it was reported as not a PDF
C4_Witness ==
    /\ pc = "exited"
    /\ argv.file = FileMissingTxt
    /\ exitStatus = 1
    /\ exitMsg = "only works with PDF files"

\* the token the claim gives each option, in the claim's order; an option
\* counts as set when it was given a non-empty value
ClaimedTokens(av) ==
    LET slot(n) ==
          CASE n = 1 -> IF av.chords THEN << <<"#", "chords">> >> ELSE <<>>
            [] n = 2 -> IF av.jon THEN << <<"#", "jon">> >> ELSE <<>>
            [] n = 3 -> IF av.key.set
                        THEN << <<"#", "key", "=">> \o Normalize(av.key.val) >>
                        ELSE <<>>
            [] n = 4 -> IF av.youtube.set /\ av.youtube.val # <<>>
                        THEN <<av.youtube.val>> ELSE <<>>
            [] n = 5 -> IF av.spotify.set /\ av.spotify.val # <<>>
                        THEN <<av.spotify.val>> ELSE <<>>
            [] n = 6 -> IF av.instrument.set
                        THEN [i \in 1..Len(av.instrument.val) |->
                                 <<"#">> \o av.instrument.val[i]]
                        ELSE <<>>
            [] n = 7 -> IF av.tab THEN << <<"#", "tab">> >> ELSE <<>>
    IN  slot(1) \o slot(2) \o slot(3) \o slot(4) \o slot(5) \o slot(6) \o slot(7)

ExampleCmd(av) ==
    /\ av.chords /\ ~av.jon /\ av.tab
    /\ av.key = Some(<<"A", "b">>)
    /\ av.youtube = None /\ av.spotify = None
    /\ av.instrument = Some(<< <<"guitar">>, <<"bass">> >>)

ExampleKeywords ==
    <<"#", "chords", ";", " ", "#", "key", "=", "G", "#", "/", "A", "b", ";", " ",
      "#", "guitar", ";", " ", "#", "bass", ";", " ", "#", "tab">>

\* C5: gather_properties yields the tokens #chords, #jon, #key=<normalized
\* key>, youtube URL, spotify URL, one #<instrument> per instrument in the
\* order given, #tab, one per set option and no others, joined with "; ";
\* --chords --key Ab --instrument guitar bass --tab yields
\* "#chords; #key=G#/Ab; #guitar; #bass; #tab".
C5_FixedTokenOrder ==
    "gather_properties" \in reached
    => /\ ClaimedTokens(argv) # <<>> =>
             /\ DOMAIN props = {PROPERTY_KEYWORDS}
             /\ props[PROPERTY_KEYWORDS] = Join(ClaimedTokens(argv), <<";", " ">>)
       /\ ExampleCmd(argv) => Assembled(ExampleKeywords)

\* the example command line was assembled
C5_Witness ==
    /\ "gather_properties" \in reached
    /\ ExampleCmd(argv)
    /\ Assembled(ExampleKeywords)

\* no keyword option has a value the assembler takes
NoneSet(av) ==
    /\ ~av.chords /\ ~av.jon /\ ~av.tab
    /\ ~Truthy(av.key) /\ ~Truthy(av.instrument)
    /\ ~Truthy(av.youtube) /\ ~Truthy(av.spotify)

\* C6: a write with none of the keyword options set assembles a mapping
\* with no Keywords key, does not save the file, and leaves every document
\* as it was, under merge and under overwrite.
C6_NoFlagsNoSave ==
    ("gather_properties" \in reached /\ NoneSet(argv))
    => /\ PROPERTY_KEYWORDS \notin DOMAIN props
       /\ ~saved
       /\ fs = fsBefore

\* an overwrite without keyword options ran to its end on a tagged document
C6_Witness ==
    /\ pc = "exited"
    /\ exitStatus = 0
    /\ Parsed
    /\ args.strategy = STRATEGY_OVERWRITE
    /\ NoneSet(argv)
    /\ "write_properties" \in reached
    /\ HasKeywords(fs[args.file])

\* C7: after a write that saved the file, the mapping the next read returns
\* has a Keywords entry equal to the value the writer computed.
C7_RoundTrip ==
    saved
    => /\ PROPERTY_KEYWORDS \in DOMAIN new_props
       /\ new_props[PROPERTY_KEYWORDS] = computed.val

\* C8: write_properties is reached only with exactly one of --merge and
\* --overwrite, with the strategy of the flag that was given; a write with
\* both or neither ends before the file is opened; the writer's ValueError
\* is never raised.
C8_OneStrategy ==
    /\ (pc = "write_properties" \/ "write_properties" \in reached)
         => /\ argv.merge # argv.overwrite
            /\ HasAttr(args, "strategy")
            /\ args.strategy = STRATEGY_MERGE <=> argv.merge
            /\ args.strategy = STRATEGY_OVERWRITE <=> argv.overwrite
    /\ (Invoked /\ argv.action = "write" /\ argv.merge = argv.overwrite)
         => /\ pc \in {"parseargs", "exited"}
            /\ opens = 0
            /\ pc = "exited" => exitStatus = 2
    /\ exitMsg # "ValueError: invalid stategy"

\* a write with both flags was rejected
C8_Witness ==
    /\ pc = "exited"
    /\ argv.action = "write"
    /\ argv.merge /\ argv.overwrite
    /\ exitStatus = 2
    /\ opens = 0

\* the canonical dual name "X#/Yb"
IsDualName(n) == Len(n) = 5 /\ n[2] = "#" /\ n[3] = "/" /\ n[5] = "b"

\* C9: every key of USER_KEYS with a sharp or a flat is normalised to the
\* dual name that contains it, and every natural note is left unchanged.
C9_Normalizer ==
    (Parsed /\ argv.key.set)
    => LET given == argv.key.val
           result == args.key.val
       IN  IF Len(given) = 2
           THEN /\ IsDualName(result)
                /\ given \in {SubSeq(result, 1, 2), SubSeq(result, 4, 5)}
           ELSE result = given

\* C10: every info-dictionary entry other than Keywords is the same as
\* before the first invocation, in every file.
C10_OnlyKeywordsChange ==
    \A f \in DOMAIN fs0 :
        /\ f \in DOMAIN fs
        /\ fs[f].hasInfo = fs0[f].hasInfo
        /\ DOMAIN fs[f].info \ {PROPERTY_KEYWORDS}
             = DOMAIN fs0[f].info \ {PROPERTY_KEYWORDS}
        /\ \A k \in DOMAIN fs0[f].info \ {PROPERTY_KEYWORDS} :
              fs[f].info[k] = fs0[f].info[k]

\* a second write saved a document that has a Title and changed its Keywords
C10_Witness ==
    /\ runs = 2
    /\ saved
    /\ Parsed
    /\ "/Title" \in DOMAIN fs[args.file].info
    /\ HasKeywords(fs0[args.file])
    /\ fs[args.file].info[PROPERTY_KEYWORDS] # fs0[args.file].info[PROPERTY_KEYWORDS]

====
